---------------------------- MODULE Spec2Model ----------------------------
(***************************************************************************)
(* A model of drivers/spi/spi-bcm2708.c: the configuration resolver        *)
(* (bcm2708_setup_state), the message queue and worker (bcm2708_work,      *)
(* bcm2708_process_transfer, bcm2708_spi_transfer), the interrupt-driven   *)
(* FIFO pump (bcm2708_spi_interrupt, bcm2708_wr_fifo, bcm2708_rd_fifo),    *)
(* per-peer setup (bcm2708_spi_setup) and teardown (bcm2708_spi_remove).   *)
(*                                                                         *)
(* The control word is a set of bit positions: bit b stands for 1 << b.    *)
(***************************************************************************)
EXTENDS Integers, Sequences, FiniteSets, TLC

----------------------------------------------------------------------------
(* Bit positions of the CS register fields (lines 48-71).                  *)

SPI_CS_LEN_LONG == 25
SPI_CS_DMA_LEN == 24
SPI_CS_CSPOL2 == 23
SPI_CS_CSPOL1 == 22
SPI_CS_CSPOL0 == 21
SPI_CS_RXF == 20
SPI_CS_RXR == 19
SPI_CS_TXD == 18
SPI_CS_RXD == 17
SPI_CS_DONE == 16
SPI_CS_LEN == 13
SPI_CS_REN == 12
SPI_CS_INTR == 10
SPI_CS_INTD == 9
SPI_CS_TA == 7
SPI_CS_CSPOL == 6
SPI_CS_CLEAR_RX == 5
SPI_CS_CLEAR_TX == 4
SPI_CS_CPOL == 3
SPI_CS_CPHA == 2
SPI_CS_CS_10 == 1
SPI_CS_CS_01 == 0

(* spi->mode flags understood by the driver (line 508).                    *)
SPI_CPHA == "SPI_CPHA"
SPI_CPOL == "SPI_CPOL"
SPI_CS_HIGH == "SPI_CS_HIGH"
SPI_NO_CS == "SPI_NO_CS"
ModeBits == {SPI_CPHA, SPI_CPOL, SPI_CS_HIGH, SPI_NO_CS}

(* Return values.                                                          *)
OK == "0"
EINVAL == "-EINVAL"
ESHUTDOWN == "-ESHUTDOWN"
ETIMEDOUT == "-ETIMEDOUT"
EINPROGRESS == "-EINPROGRESS"

(* The largest divisor the clock register can express (lines 241, 246).    *)
CDIV_MAX == 65536

(* master->num_chipselect (line 511).                                      *)
num_chipselect == 3

(* The number of FIFO entries pushed on "done" and moved on "ready".       *)
DONE_FILL == 16
RXR_CHUNK == 12

----------------------------------------------------------------------------
(* Bounds of the model.                                                    *)

\* small frequencies 0..MaxSmallHz are enumerated next to the large ones
MaxSmallHz == 4
\* number of submit calls (each submits its own Message)
NumMsgs == 2
\* longest Transfer of SpecPump
MaxLen == 126
\* number of bcm2708_spi_setup calls after the initial one
MaxSetups == 1

----------------------------------------------------------------------------
(* Configuration resolver: bcm2708_setup_state.                            *)

Min(a, b) == IF a < b THEN a ELSE b

\* DIV_ROUND_UP(n, d) of linux/kernel.h
DIV_ROUND_UP(n, d) == (n + d - 1) \div d

RECURSIVE Pow2From(_, _)
Pow2From(p, n) == IF p >= n THEN p ELSE Pow2From(2 * p, n)

\* roundup_pow_of_two(n) of linux/log2.h, n >= 1
roundup_pow_of_two_Unrounded(n) == n

roundup_pow_of_two(n) == Pow2From(1, n)

\* lines 233-253: the divisor, or the early error return of line 245.
\*   [err |-> TRUE] or [err |-> FALSE, cdiv |-> c]
ClockDivider_ZeroIsFastest(bus_hz, hz) ==
  IF hz >= bus_hz THEN [err |-> FALSE, cdiv |-> 2]
  ELSE IF hz # 0
       THEN LET c == roundup_pow_of_two(DIV_ROUND_UP(bus_hz, hz))
            IN  IF c > CDIV_MAX THEN [err |-> TRUE, cdiv |-> c]
                ELSE IF c = CDIV_MAX THEN [err |-> FALSE, cdiv |-> 0]
                ELSE IF c = 1 THEN [err |-> FALSE, cdiv |-> 2]
                ELSE [err |-> FALSE, cdiv |-> c]
       ELSE [err |-> FALSE, cdiv |-> 2]

ClockDivider(bus_hz, hz) ==
  IF hz >= bus_hz THEN [err |-> FALSE, cdiv |-> 2]
  ELSE IF hz # 0
       THEN LET c == roundup_pow_of_two(DIV_ROUND_UP(bus_hz, hz))
            IN  IF c > CDIV_MAX THEN [err |-> TRUE, cdiv |-> c]
                ELSE IF c = CDIV_MAX THEN [err |-> FALSE, cdiv |-> 0]
                ELSE IF c = 1 THEN [err |-> FALSE, cdiv |-> 2]
                ELSE [err |-> FALSE, cdiv |-> c]
       ELSE [err |-> FALSE, cdiv |-> 0]

\* lines 255-266: the word-width switch
WidthOk(bpw) == bpw \in {8, 9}

\* the bits of the chip-select index or-ed into the control word (line 279)
CselBits(csel) ==
  (IF csel % 2 = 1 THEN {SPI_CS_CS_01} ELSE {}) \cup
  (IF (csel \div 2) % 2 = 1 THEN {SPI_CS_CS_10} ELSE {})

\* lines 229, 255-282: the control word
ControlWord(csel, mode, bpw) ==
  (IF bpw = 9 THEN {SPI_CS_LEN} ELSE {}) \cup
  (IF SPI_CPOL \in mode THEN {SPI_CS_CPOL} ELSE {}) \cup
  (IF SPI_CPHA \in mode THEN {SPI_CS_CPHA} ELSE {}) \cup
  (IF SPI_NO_CS \notin mode
   THEN (IF SPI_CS_HIGH \in mode
         THEN {SPI_CS_CSPOL, SPI_CS_CSPOL0 + csel} ELSE {}) \cup CselBits(csel)
   ELSE {SPI_CS_CS_10, SPI_CS_CS_01})

\* A struct bcm2708_spi_state; cdiv is a u16.
State(cs, cdiv) == [cs |-> cs, cdiv |-> cdiv % 65536]

\* bcm2708_setup_state(master, dev, state, hz, csel, mode, bpw): `st` is the
\* content of *state before the call (NoState when state is NULL); the result
\* is the return value and the content of *state after the call.
NoState == [cs |-> {}, cdiv |-> -1]

setup_state_EarlyWrite(st, has_state, bus_hz, hz, csel, mode, bpw) ==
  LET d == ClockDivider(bus_hz, hz) IN
  IF d.err THEN [ret |-> EINVAL, state |-> st]
  ELSE IF ~WidthOk(bpw)
       THEN [ret |-> EINVAL,
             state |-> IF has_state THEN State(st.cs, d.cdiv) ELSE st]
       ELSE [ret |-> OK,
             state |-> IF has_state
                       THEN State(ControlWord(csel, mode, bpw), d.cdiv)
                       ELSE st]

bcm2708_setup_state(st, has_state, bus_hz, hz, csel, mode, bpw) ==
  LET d == ClockDivider(bus_hz, hz) IN
  IF d.err THEN [ret |-> EINVAL, state |-> st]
  ELSE IF ~WidthOk(bpw) THEN [ret |-> EINVAL, state |-> st]
  ELSE [ret |-> OK,
        state |-> IF has_state
                  THEN State(ControlWord(csel, mode, bpw), d.cdiv)
                  ELSE st]


----------------------------------------------------------------------------
(* The platform: the bus clock and the FIFO depth of the SPI engine.       *)

\* clk_get_rate(bs->clk)
BusHz == 250000000

\* the engine's FIFOs hold 16 words of 32 bits, one entry per byte written
\* to SPI_FIFO: room for the 16 + 12 entries the handler writes without
\* looking at CS.TXD
FIFO_DEPTH == 64

\* CS.RXR is raised when the receive FIFO is three quarters full
RXR_LEVEL == 48

----------------------------------------------------------------------------
(* Messages and Transfers handed to bcm2708_spi_transfer by the callers.   *)

\* a struct spi_transfer: tx/rx say whether tx_buf/rx_buf are non-NULL
X(len, tx, rx, bpw, hz, cs_change) ==
  [len |-> len, tx |-> tx, rx |-> rx, bits_per_word |-> bpw,
   speed_hz |-> hz, cs_change |-> cs_change]

\* a speed the divider can reach (cdiv 256) and one it cannot (cdiv > 65536)
GoodHz == 1000000
LowHz == 1000

\* the struct spi_message a caller passes in: its transfers, and the status
\* and actual_length the caller's structure holds at the call
M(transfers, status, actual_length) ==
  [transfers |-> transfers, status |-> status, actual_length |-> actual_length]

\* the Messages the callers of Spec submit
MsgPool ==
  { M(<<X(1, TRUE, TRUE, 0, 0, FALSE)>>, OK, 0),
    M(<<>>, OK, 5),
    M(<<X(1, FALSE, FALSE, 0, 0, FALSE)>>, OK, 5),
    M(<<X(1, TRUE, FALSE, 7, 0, FALSE)>>, OK, 5),
    M(<<X(1, TRUE, FALSE, 0, LowHz, FALSE), X(1, TRUE, TRUE, 0, 0, FALSE)>>, OK, 0),
    M(<<X(1, FALSE, TRUE, 7, GoodHz, FALSE)>>, OK, 0),
    M(<<X(2, TRUE, TRUE, 8, GoodHz, TRUE), X(2, TRUE, FALSE, 9, 0, FALSE)>>, OK, 0),
    M(<<X(3, TRUE, FALSE, 9, 0, FALSE), X(0, FALSE, FALSE, 0, 0, FALSE)>>, OK, 0) }

\* the Messages the caller of SpecPump submits: single Transfers of every
\* length up to MaxLen, in byte mode and in wide mode
PumpPool ==
  { M(<<X(len, TRUE, rx, bpw, 0, FALSE)>>, OK, 0) :
      len \in 0..MaxLen, rx \in BOOLEAN, bpw \in {0, 9} }

\* the Messages of the callers of SpecLive: one Transfer, and two Transfers
\* with overrides
LivePool ==
  { M(<<X(1, TRUE, TRUE, 0, 0, FALSE)>>, OK, 0),
    M(<<X(2, TRUE, TRUE, 8, GoodHz, TRUE), X(2, TRUE, FALSE, 9, 0, FALSE)>>, OK, 0) }

\* the pool the callers of a specification draw their Messages from
PoolOf(name) ==
  CASE name = "msg" -> MsgPool
    [] name = "pump" -> PumpPool
    [] name = "live" -> LivePool
    [] OTHER -> {}

\* the settings a caller may put in the struct spi_device before spi_setup
Peer(hz, bpw, mode, csel) ==
  [max_speed_hz |-> hz, bits_per_word |-> bpw, mode |-> mode, chip_select |-> csel]

PeerParams ==
  { Peer(GoodHz, 8, {}, 0),
    Peer(GoodHz, 9, {SPI_CPOL}, 1),
    Peer(GoodHz, 16, {}, 0),
    Peer(LowHz, 8, {}, 0),
    Peer(0, 8, {SPI_CS_HIGH}, 4),
    Peer(0, 8, {SPI_NO_CS}, 4) }

MsgIds == 1..NumMsgs

----------------------------------------------------------------------------
VARIABLES
  rs,            \* the resolver call of SpecResolve: inputs and result
  env,           \* the callers: how many submit calls, and from which pool
  stopping,      \* bs->stopping
  queue,         \* bs->queue: the ids of the queued Messages, head first
  work_pending,  \* bs->work is queued on bs->workq and has not started
  msg,           \* the callers' struct spi_message objects
  sub,           \* each bcm2708_spi_transfer call: its position and result
  spi,           \* the struct spi_device: settings and controller_state
  setups,        \* number of bcm2708_spi_setup calls made
  setup_ret,     \* the result of the last bcm2708_spi_setup call
  wpc,           \* the worker's position in bcm2708_work/process_transfer
  cur,           \* msg of bcm2708_work
  xi,            \* xfer of bcm2708_work: its index in msg->transfers
  status,        \* status of bcm2708_work
  stp,           \* *stp of bcm2708_process_transfer
  done,          \* bs->done.done: completions signalled and not consumed
  bs,            \* bs->tx_buf, bs->rx_buf, bs->len and what moved through them
  hw,            \* the SPI engine: CS and CLK registers, FIFO fill levels
  hw_on,         \* the interrupt is requested and the registers are mapped
  rpc,           \* the position of bcm2708_spi_remove
  enq_log,       \* history: message ids in the order they were enqueued
  cb_log,        \* history: the completion callbacks, in order
  xlog           \* history: every return of bcm2708_process_transfer

vars == <<rs, env, stopping, queue, work_pending, msg, sub, spi, setups, setup_ret,
          wpc, cur, xi, status, stp, done, bs, hw, hw_on, rpc,
          enq_log, cb_log, xlog>>

----------------------------------------------------------------------------
(* The SPI engine as the driver sees it through the CS register.           *)

\* CS.DONE: a transfer is active and the transmit FIFO has been shifted out
HwDone(h) == SPI_CS_TA \in h.cs /\ h.tx = 0
\* CS.RXR: a transfer is active and the receive FIFO is three quarters full
HwRxr(h) == SPI_CS_TA \in h.cs /\ h.rx >= RXR_LEVEL
\* CS.RXD: the receive FIFO holds data
HwRxd(h) == h.rx > 0

\* the interrupt line: INTD with DONE, or INTR with RXR
IrqLine(h) ==
  \/ SPI_CS_INTD \in h.cs /\ HwDone(h)
  \/ SPI_CS_INTR \in h.cs /\ HwRxr(h)

\* writel(val, base + SPI_CS): the CLEAR bits empty the FIFOs and read back 0
WriteCS(h, val) ==
  [h EXCEPT !.cs = val \ {SPI_CS_CLEAR_RX, SPI_CS_CLEAR_TX},
            !.tx = IF SPI_CS_CLEAR_TX \in val THEN 0 ELSE @,
            !.rx = IF SPI_CS_CLEAR_RX \in val THEN 0 ELSE @]

\* the engine shifts one FIFO entry out and one in
HwShift ==
  /\ hw_on
  /\ SPI_CS_TA \in hw.cs
  /\ hw.tx > 0
  /\ hw.rx < FIFO_DEPTH
  /\ hw' = [hw EXCEPT !.tx = @ - 1, !.rx = @ + 1]
  /\ UNCHANGED <<rs, env, stopping, queue, work_pending, msg, sub, spi, setups,
                 setup_ret, wpc, cur, xi, status, stp, done, bs, hw_on, rpc,
                 enq_log, cb_log, xlog>>

----------------------------------------------------------------------------
(* The transfer pump: bcm2708_rd_fifo, bcm2708_wr_fifo and the interrupt   *)
(* handler.  A pump step maps the pair (cursor, engine) to a new pair.     *)
(* The cursor b is bs->tx_buf, bs->rx_buf, bs->len; b.pushed and b.stored  *)
(* count the bytes taken from the cursor into the transmit FIFO and the    *)
(* bytes stored through bs->rx_buf since the worker loaded the cursor.     *)

Pump(b, h) == [bs |-> b, hw |-> h]

\* bcm2708_rd_fifo that reads the FIFO and never advances bs->rx_buf
bcm2708_rd_fifo_NoStore(b, h, len) ==
  Pump(b, [h EXCEPT !.rx = IF @ > len THEN @ - len ELSE 0])

\* bcm2708_rd_fifo(bs, len)
bcm2708_rd_fifo(b, h, len) ==
  Pump([b EXCEPT !.stored = IF b.rx THEN @ + len ELSE @],
       [h EXCEPT !.rx = IF @ > len THEN @ - len ELSE 0])

\* bcm2708_wr_fifo without lines 151-152: the chunk is not cut down to what
\* remains
bcm2708_wr_fifo_NoClamp(b, h, n) ==
  Pump([b EXCEPT !.len = @ - n, !.pushed = @ + n],
       [h EXCEPT !.tx = Min(FIFO_DEPTH,
                            @ + (IF SPI_CS_LEN \in h.cs THEN n \div 2 ELSE n))])

\* bcm2708_wr_fifo(bs, len)
bcm2708_wr_fifo(b, h, n) ==
  LET len == Min(n, b.len) IN
  IF SPI_CS_LEN \in h.cs
  THEN IF len % 2 # 0
       THEN Pump([b EXCEPT !.len = 0], h)
       ELSE Pump([b EXCEPT !.len = @ - len, !.pushed = @ + len],
                 [h EXCEPT !.tx = Min(FIFO_DEPTH, @ + (len \div 2))])
  ELSE Pump([b EXCEPT !.len = @ - len, !.pushed = @ + len],
            [h EXCEPT !.tx = Min(FIFO_DEPTH, @ + len)])

\* lines 201-204: drain the receive FIFO while CS.RXD is set
RECURSIVE DrainRx(_, _)
DrainRx(b, h) ==
  IF HwRxd(h)
  THEN LET p == bcm2708_rd_fifo(b, h, 1) IN DrainRx(p.bs, p.hw)
  ELSE Pump(b, h)

\* lines 195-204: the transfer is complete: mask the interrupts, drain
PumpComplete(b, h) ==
  DrainRx(b, WriteCS(h, h.cs \ {SPI_CS_INTR, SPI_CS_INTD}))

\* bcm2708_spi_interrupt, one invocation under bs->lock
bcm2708_spi_interrupt ==
  /\ hw_on
  /\ IrqLine(hw)
  /\ LET p == IF HwDone(hw)
              THEN IF bs.len # 0
                   THEN bcm2708_wr_fifo(bs, hw, DONE_FILL)
                   ELSE PumpComplete(bs, hw)
              ELSE IF HwRxr(hw)
                   THEN LET q == bcm2708_rd_fifo(bs, hw, RXR_CHUNK)
                        IN  bcm2708_wr_fifo(q.bs, q.hw, RXR_CHUNK)
                   ELSE Pump(bs, hw)
     IN  /\ bs' = p.bs
         /\ hw' = p.hw
         /\ done' = IF HwDone(hw) /\ bs.len = 0 THEN done + 1 ELSE done
  /\ UNCHANGED <<rs, env, stopping, queue, work_pending, msg, sub, spi, setups,
                 setup_ret, wpc, cur, xi, status, stp, hw_on, rpc,
                 enq_log, cb_log, xlog>>


----------------------------------------------------------------------------
(* Submission: bcm2708_spi_transfer.                                       *)

\* line 437: a Transfer with a length and neither buffer
MissingBuf(x) == ~(x.tx \/ x.rx) /\ x.len # 0

\* line 442: the Transfers the eager check skips
SkipsEagerCheck(x) == x.bits_per_word = 0 \/ x.speed_hz # 0

\* lines 309-312 and 446-449: the effective speed and word width
EffHz(x, peer) == IF x.speed_hz # 0 THEN x.speed_hz ELSE peer.max_speed_hz
EffBpw(x, peer) ==
  IF x.bits_per_word # 0 THEN x.bits_per_word ELSE peer.bits_per_word

\* lines 437-451: the body of the validation loop for one Transfer
CheckXfer_NoBufCheck(x, peer) ==
  IF SkipsEagerCheck(x) THEN OK
  ELSE bcm2708_setup_state(NoState, FALSE, BusHz, EffHz(x, peer),
                           peer.chip_select, peer.mode, EffBpw(x, peer)).ret

CheckXfer(x, peer) ==
  IF MissingBuf(x) THEN EINVAL
  ELSE IF SkipsEagerCheck(x) THEN OK
  ELSE bcm2708_setup_state(NoState, FALSE, BusHz, EffHz(x, peer),
                           peer.chip_select, peer.mode, EffBpw(x, peer)).ret

\* lines 436-452: the loop returns the first error
RECURSIVE CheckXfers(_, _)
CheckXfers(xs, peer) ==
  IF xs = <<>> THEN OK
  ELSE LET r == CheckXfer(Head(xs), peer)
       IN  IF r # OK THEN r ELSE CheckXfers(Tail(xs), peer)

\* lines 430-452: the result of the checks made before the Message is queued
SubmitChecks(m, stop, peer) ==
  IF m.transfers = <<>> THEN EINVAL
  ELSE IF stop THEN ESHUTDOWN
  ELSE CheckXfers(m.transfers, peer)

\* list_add_tail(&msg->queue, &bs->queue)
Enqueue_AtHead(q, i) == <<i>> \o q

Enqueue(q, i) == Append(q, i)

\* lines 430-452: the call starts with Message m and runs the checks.  The
\* calls come from one caller thread, one after the other; each call still
\* interleaves with the worker, the interrupt handler and teardown.
SubmitCheck(i) ==
  /\ sub[i].pc = "idle"
  /\ i <= env.calls
  /\ IF i = 1 THEN TRUE ELSE sub[i - 1].pc = "returned"
  /\ \E m \in PoolOf(env.pool) :
       LET r == SubmitChecks(m, stopping, spi) IN
       /\ msg' = [msg EXCEPT ![i] = m]
       /\ sub' = [sub EXCEPT ![i] =
                    [pc |-> IF r = OK THEN "checked" ELSE "returned", ret |-> r]]
  /\ UNCHANGED <<rs, env, stopping, queue, work_pending, spi, setups, setup_ret,
                 wpc, cur, xi, status, stp, done, bs, hw, hw_on, rpc,
                 enq_log, cb_log, xlog>>

\* lines 454-462: the Message is marked in progress and queued under the lock
SubmitEnqueue(i) ==
  /\ sub[i].pc = "checked"
  /\ msg' = [msg EXCEPT ![i].status = EINPROGRESS, ![i].actual_length = 0]
  /\ queue' = Enqueue(queue, i)
  /\ work_pending' = TRUE
  /\ sub' = [sub EXCEPT ![i] = [pc |-> "returned", ret |-> OK]]
  /\ enq_log' = Append(enq_log, i)
  /\ UNCHANGED <<rs, env, stopping, spi, setups, setup_ret, wpc, cur, xi, status,
                 stp, done, bs, hw, hw_on, rpc, cb_log, xlog>>

----------------------------------------------------------------------------
(* Peer configuration: bcm2708_spi_setup.  The caller stores new settings  *)
(* in the spi_device and calls setup while none of its Messages is pending.*)

NoTransfersPending ==
  /\ queue = <<>>
  /\ wpc = "idle"
  /\ ~work_pending
  /\ \A i \in MsgIds : sub[i].pc # "checked"

\* lines 386-420: the return value and spi->controller_state after the call;
\* alloc_ok is the outcome of kzalloc when controller_state was NULL
SetupResult(p, cstate, stop, alloc_ok) ==
  IF stop THEN [ret |-> ESHUTDOWN, state |-> cstate]
  ELSE IF SPI_NO_CS \notin p.mode /\ p.chip_select > num_chipselect
       THEN [ret |-> EINVAL, state |-> cstate]
  ELSE IF cstate = NoState /\ ~alloc_ok
       THEN [ret |-> "-ENOMEM", state |-> NoState]
  ELSE LET r == bcm2708_setup_state(
                  IF cstate = NoState THEN State({}, 0) ELSE cstate,
                  TRUE, BusHz, p.max_speed_hz, p.chip_select, p.mode,
                  p.bits_per_word)
       IN  IF r.ret # OK THEN [ret |-> r.ret, state |-> NoState] ELSE r

bcm2708_spi_setup ==
  /\ setups < MaxSetups
  /\ NoTransfersPending
  /\ \E p \in PeerParams, alloc_ok \in BOOLEAN :
       LET r == SetupResult(p, spi.controller_state, stopping, alloc_ok) IN
       /\ spi.controller_state = NoState \/ alloc_ok
       /\ spi' = [max_speed_hz |-> p.max_speed_hz,
                  bits_per_word |-> p.bits_per_word,
                  mode |-> p.mode, chip_select |-> p.chip_select,
                  controller_state |-> r.state]
       /\ setup_ret' = r.ret
  /\ setups' = setups + 1
  /\ UNCHANGED <<rs, env, stopping, queue, work_pending, msg, sub, wpc, cur, xi,
                 status, stp, done, bs, hw, hw_on, rpc, enq_log, cb_log, xlog>>


----------------------------------------------------------------------------
(* The worker: bcm2708_work and bcm2708_process_transfer.                  *)

CurXfer == msg[cur].transfers[xi]

\* lines 304-319: the early returns, or the state the Transfer will run with
XferSetup(x, peer, stop) ==
  IF stop THEN [ret |-> ESHUTDOWN, state |-> NoState]
  ELSE IF x.bits_per_word # 0 \/ x.speed_hz # 0
       THEN bcm2708_setup_state(NoState, TRUE, BusHz, EffHz(x, peer),
                                peer.chip_select, peer.mode, EffBpw(x, peer))
       ELSE [ret |-> OK, state |-> peer.controller_state]

\* lines 366-370: the loop over the Transfers ends at the first error or
\* after the last Transfer
LoopEnds(ret, i, n) == ret # OK \/ i = n

\* line 372: msg->status = status
SetStatus_Skipped(m, st) == m

SetStatus(m, st) == [m EXCEPT !.status = st]

\* line 347: msg->actual_length += (xfer->len - bs->len)
Accumulate(m, x, b) == [m EXCEPT !.actual_length = @ + (x.len - b.len)]

\* bcm2708_process_transfer returns ret: bcm2708_work records it and moves on
XferReturns(ret, armed, added) ==
  /\ status' = ret
  /\ xlog' = Append(xlog, [m |-> cur, x |-> xi, ret |-> ret, armed |-> armed,
                           wide |-> armed /\ SPI_CS_LEN \in stp.cs,
                           pushed |-> IF armed THEN bs.pushed ELSE 0,
                           left |-> IF armed THEN bs.len ELSE 0,
                           added |-> added])
  /\ IF LoopEnds(ret, xi, Len(msg[cur].transfers))
     THEN wpc' = "complete" /\ xi' = xi
     ELSE wpc' = "xfer" /\ xi' = xi + 1

\* the workqueue starts bcm2708_work (line 358)
WorkerStart ==
  /\ work_pending
  /\ wpc = "idle"
  /\ work_pending' = FALSE
  /\ wpc' = "loop"
  /\ status' = OK
  /\ UNCHANGED <<rs, env, stopping, queue, msg, sub, spi, setups, setup_ret, cur,
                 xi, stp, done, bs, hw, hw_on, rpc, enq_log, cb_log, xlog>>

\* lines 360-364 and 375-377: under the lock, pop the head or leave
WorkerLoop ==
  /\ wpc = "loop"
  /\ IF queue = <<>>
     THEN /\ wpc' = "idle"
          /\ UNCHANGED <<queue, cur, xi>>
     ELSE /\ cur' = Head(queue)
          /\ queue' = Tail(queue)
          /\ xi' = 1
          /\ wpc' = "xfer"
  /\ UNCHANGED <<rs, env, stopping, work_pending, msg, sub, spi, setups, setup_ret,
                 status, stp, done, bs, hw, hw_on, rpc, enq_log, cb_log, xlog>>

\* lines 304-319
WorkerXferBegin ==
  /\ wpc = "xfer"
  /\ LET r == XferSetup(CurXfer, spi, stopping) IN
     IF r.ret # OK
     THEN /\ XferReturns(r.ret, FALSE, 0)
          /\ UNCHANGED stp
     ELSE /\ stp' = r.state
          /\ wpc' = "reinit"
          /\ UNCHANGED <<xi, status, xlog>>
  /\ UNCHANGED <<rs, env, stopping, queue, work_pending, msg, sub, spi, setups,
                 setup_ret, cur, done, bs, hw, hw_on, rpc, enq_log, cb_log>>

\* line 321: reinit_completion(&bs->done)
WorkerReinit ==
  /\ wpc = "reinit"
  /\ done' = 0
  /\ wpc' = "cursor"
  /\ UNCHANGED <<rs, env, stopping, queue, work_pending, msg, sub, spi, setups,
                 setup_ret, cur, xi, status, stp, bs, hw, hw_on, rpc,
                 enq_log, cb_log, xlog>>

\* lines 322-324: load the cursor
WorkerCursor ==
  /\ wpc = "cursor"
  /\ bs' = [tx |-> CurXfer.tx, rx |-> CurXfer.rx, len |-> CurXfer.len,
            pushed |-> 0, stored |-> 0]
  /\ wpc' = "arm"
  /\ UNCHANGED <<rs, env, stopping, queue, work_pending, msg, sub, spi, setups,
                 setup_ret, cur, xi, status, stp, done, hw, hw_on, rpc,
                 enq_log, cb_log, xlog>>

\* lines 326-329: program the divider and start the transfer.  With stp NULL
\* (no controller_state) line 326 dereferences a null pointer and the worker
\* thread dies.
WorkerArm ==
  /\ wpc = "arm"
  /\ IF stp = NoState
     THEN wpc' = "oops" /\ UNCHANGED hw
     ELSE /\ hw' = WriteCS([hw EXCEPT !.clk = stp.cdiv],
                           stp.cs \cup {SPI_CS_INTR, SPI_CS_INTD, SPI_CS_TA})
          /\ wpc' = "wait"
  /\ UNCHANGED <<rs, env, stopping, queue, work_pending, msg, sub, spi, setups,
                 setup_ret, cur, xi, status, stp, done, bs, hw_on, rpc,
                 enq_log, cb_log, xlog>>

\* a wait without a timeout: wait_for_completion
WorkerTimeout_WaitsForever ==
  /\ wpc = "wait"
  /\ done = 0
  /\ FALSE
  /\ UNCHANGED vars

\* lines 331-336: the wait ends without a completion
WorkerTimeout ==
  /\ wpc = "wait"
  /\ done = 0
  /\ XferReturns(ETIMEDOUT, TRUE, 0)
  /\ UNCHANGED <<rs, env, stopping, queue, work_pending, msg, sub, spi, setups,
                 setup_ret, cur, stp, done, bs, hw, hw_on, rpc, enq_log, cb_log>>

\* lines 331-349: the wait consumes a completion; chip select is released
\* after the last Transfer or on cs_change; the moved bytes are accounted
WorkerXferDone ==
  /\ wpc = "wait"
  /\ done > 0
  /\ done' = done - 1
  /\ hw' = IF xi = Len(msg[cur].transfers) \/ CurXfer.cs_change
           THEN WriteCS(hw, stp.cs) ELSE hw
  /\ msg' = [msg EXCEPT ![cur] = Accumulate(@, CurXfer, bs)]
  /\ XferReturns(OK, TRUE, CurXfer.len - bs.len)
  /\ UNCHANGED <<rs, env, stopping, queue, work_pending, sub, spi, setups,
                 setup_ret, cur, stp, bs, hw_on, rpc, enq_log, cb_log>>

\* lines 372-373: store the status and call msg->complete(msg->context)
WorkerComplete ==
  /\ wpc = "complete"
  /\ LET fin == SetStatus(msg[cur], status) IN
     /\ msg' = [msg EXCEPT ![cur] = fin]
     /\ cb_log' = Append(cb_log, [m |-> cur, status |-> fin.status,
                                  actual_length |-> fin.actual_length])
  /\ wpc' = "callback"
  /\ UNCHANGED <<rs, env, stopping, queue, work_pending, sub, spi, setups,
                 setup_ret, cur, xi, status, stp, done, bs, hw, hw_on, rpc,
                 enq_log, xlog>>

\* line 373 returns; line 375 takes the lock again
WorkerCallbackReturns ==
  /\ wpc = "callback"
  /\ wpc' = "loop"
  /\ UNCHANGED <<rs, env, stopping, queue, work_pending, msg, sub, spi, setups,
                 setup_ret, cur, xi, status, stp, done, bs, hw, hw_on, rpc,
                 enq_log, cb_log, xlog>>

----------------------------------------------------------------------------
(* Teardown: bcm2708_spi_remove.                                           *)

\* lines 583-586: under the lock, set stopping and reset the engine
RemoveStop ==
  /\ rpc = "idle"
  /\ stopping' = TRUE
  /\ hw' = WriteCS(hw, {SPI_CS_CLEAR_RX, SPI_CS_CLEAR_TX})
  /\ rpc' = "flush"
  /\ UNCHANGED <<rs, env, queue, work_pending, msg, sub, spi, setups, setup_ret,
                 wpc, cur, xi, status, stp, done, bs, hw_on, enq_log,
                 cb_log, xlog>>

\* lines 588-597: flush_work_sync returns once the work is neither queued
\* nor running; then the clock, the interrupt and the registers are released
RemoveFinish ==
  /\ rpc = "flush"
  /\ ~work_pending
  /\ wpc = "idle"
  /\ hw_on' = FALSE
  /\ rpc' = "done"
  /\ UNCHANGED <<rs, env, stopping, queue, work_pending, msg, sub, spi, setups,
                 setup_ret, wpc, cur, xi, status, stp, done, bs, hw,
                 enq_log, cb_log, xlog>>

----------------------------------------------------------------------------
(* The driver after bcm2708_spi_probe and a successful first setup of the  *)
(* peer.                                                                   *)

InitPeer == Peer(GoodHz, 8, {}, 0)

RsIdle == [phase |-> "none"]

InitDriver ==
  /\ stopping = FALSE
  /\ queue = <<>>
  /\ work_pending = FALSE
  /\ msg = [i \in MsgIds |-> M(<<>>, OK, 0)]
  /\ sub = [i \in MsgIds |-> [pc |-> "idle", ret |-> OK]]
  /\ spi = [max_speed_hz |-> InitPeer.max_speed_hz,
            bits_per_word |-> InitPeer.bits_per_word,
            mode |-> InitPeer.mode, chip_select |-> InitPeer.chip_select,
            controller_state |->
              bcm2708_setup_state(NoState, TRUE, BusHz, InitPeer.max_speed_hz,
                                  InitPeer.chip_select, InitPeer.mode,
                                  InitPeer.bits_per_word).state]
  /\ setups = 0
  /\ setup_ret = OK
  /\ wpc = "idle"
  /\ cur = 1
  /\ xi = 1
  /\ status = OK
  /\ stp = NoState
  /\ done = 0
  /\ bs = [tx |-> FALSE, rx |-> FALSE, len |-> 0, pushed |-> 0, stored |-> 0]
  /\ hw = [cs |-> {SPI_CS_REN}, clk |-> 0, tx |-> 0, rx |-> 0]
  /\ hw_on = TRUE
  /\ rpc = "idle"
  /\ enq_log = <<>>
  /\ cb_log = <<>>
  /\ xlog = <<>>

Init == InitDriver /\ rs = RsIdle /\ env = [calls |-> NumMsgs, pool |-> "msg"]

Next ==
  \/ \E i \in MsgIds : SubmitCheck(i)
  \/ \E i \in MsgIds : SubmitEnqueue(i)
  \/ WorkerStart
  \/ WorkerLoop
  \/ WorkerXferBegin
  \/ WorkerReinit
  \/ WorkerCursor
  \/ WorkerArm
  \/ WorkerTimeout
  \/ WorkerXferDone
  \/ WorkerComplete
  \/ WorkerCallbackReturns
  \/ HwShift
  \/ bcm2708_spi_interrupt
  \/ RemoveStop
  \/ RemoveFinish

Spec == Init /\ [][Next]_vars

\* the callers also reconfigure the peer
InitSetup == InitDriver /\ rs = RsIdle /\ env = [calls |-> 1, pool |-> "msg"]

\* one caller, one Transfer of any length
InitPump == InitDriver /\ rs = RsIdle /\ env = [calls |-> 1, pool |-> "pump"]

SpecPump == InitPump /\ [][Next]_vars

\* one step of the worker thread, wherever it stands; at the wait this is
\* the completion being consumed or the 150 ms timer expiring
WorkerStep ==
  \/ WorkerStart
  \/ WorkerLoop
  \/ WorkerXferBegin
  \/ WorkerReinit
  \/ WorkerCursor
  \/ WorkerArm
  \/ WorkerTimeout
  \/ WorkerXferDone
  \/ WorkerComplete
  \/ WorkerCallbackReturns

\* the workqueue runs the worker and the timer of the wait expires; a
\* submit call that passed its checks goes on to enqueue.  Nothing is
\* assumed of the engine: it may never shift and never interrupt.
Fairness ==
  /\ WF_vars(WorkerStep)
  /\ \A i \in MsgIds : WF_vars(SubmitEnqueue(i))

InitLive == InitDriver /\ rs = RsIdle /\ env = [calls |-> NumMsgs, pool |-> "live"]

SpecLive == InitLive /\ [][Next]_vars /\ Fairness

\* the callers also reconfigure the peer
NextSetup == Next \/ bcm2708_spi_setup

SpecSetup == InitSetup /\ [][NextSetup]_vars

----------------------------------------------------------------------------
(* The resolver on its own: one call of bcm2708_setup_state on inputs      *)
(* drawn from bounded sets.                                                *)

BusHzVals ==
  (0..MaxSmallHz) \cup {CDIV_MAX * k + d : k \in 1..MaxSmallHz, d \in {0, 1}}
  \cup {BusHz}

HzVals ==
  (0..MaxSmallHz) \cup {BusHz \div CDIV_MAX, BusHz \div CDIV_MAX + 1,
                        BusHz \div 2, BusHz, 2 * BusHz}

BpwVals == {0, 7, 8, 9, 16}

\* what *state holds before the call: no resolver result looks like it
PriorState == [cs |-> {SPI_CS_LEN_LONG}, cdiv |-> 1]

ResolveInputs ==
  [bus_hz : BusHzVals, hz : HzVals, csel : 0..num_chipselect,
   mode : SUBSET ModeBits, bpw : BpwVals, has_state : BOOLEAN]

InitResolve ==
  /\ InitDriver
  /\ env = [calls |-> 0, pool |-> "none"]
  /\ rs \in {[phase |-> "call", in |-> i, ret |-> OK, state |-> PriorState] :
               i \in ResolveInputs}

Resolve ==
  /\ rs.phase = "call"
  /\ LET r == bcm2708_setup_state(rs.state, rs.in.has_state, rs.in.bus_hz,
                                  rs.in.hz, rs.in.csel, rs.in.mode, rs.in.bpw)
     IN  rs' = [rs EXCEPT !.phase = "done", !.ret = r.ret, !.state = r.state]
  /\ UNCHANGED <<env, stopping, queue, work_pending, msg, sub, spi, setups,
                 setup_ret, wpc, cur, xi, status, stp, done, bs, hw, hw_on,
                 rpc, enq_log, cb_log, xlog>>

NextResolve == Resolve

SpecResolve == InitResolve /\ [][NextResolve]_vars

----------------------------------------------------------------------------
(* Properties of the resolver, checked under SpecResolve.                  *)

Resolved == rs.phase = "done"
ResolvedOk == Resolved /\ rs.ret = OK /\ rs.in.has_state

\* the divisor the engine applies for a stored encoding
Divisor(cdiv) == IF cdiv = 0 THEN CDIV_MAX ELSE cdiv

IsPow2(n) == \E k \in 0..16 : n = 2 ^ k

\* the clock bus_hz / d is at most hz
ClockAtMost(bus_hz, d, hz) == DIV_ROUND_UP(bus_hz, d) <= hz

\* the divisor needed for hz exceeds what the register can express
NeedsTooBigDivisor(bus_hz, hz) ==
  0 < hz /\ hz < bus_hz /\ (bus_hz - 1) \div CDIV_MAX >= hz

DivisorInRange ==
  /\ IsPow2(Divisor(rs.state.cdiv))
  /\ Divisor(rs.state.cdiv) >= 2
  /\ Divisor(rs.state.cdiv) <= CDIV_MAX
  /\ rs.state.cdiv # 1

\* C6 as stated: on success the divisor is a power of two in [2, 65536]
\* (65536 stored as 0), never 1, exactly 2 when requested_hz >= bus_hz, and
\* otherwise the resulting clock is at most the requested frequency.
C6_AsStated ==
  ResolvedOk =>
    /\ DivisorInRange
    /\ IF rs.in.hz >= rs.in.bus_hz
       THEN rs.state.cdiv = 2
       ELSE ClockAtMost(rs.in.bus_hz, Divisor(rs.state.cdiv), rs.in.hz)

\* C6 amended: on success the divisor is a power of two in [2, 65536]
\* (65536 stored as 0), never 1; it is exactly 2 when requested_hz >= bus_hz;
\* it is the 0 encoding (the slowest clock, above the request) when
\* requested_hz = 0 < bus_hz; and otherwise the resulting clock is at most
\* the requested frequency.
C6_DivisorBounds ==
  ResolvedOk =>
    /\ DivisorInRange
    /\ IF rs.in.hz >= rs.in.bus_hz
       THEN rs.state.cdiv = 2
       ELSE IF rs.in.hz = 0
            THEN rs.state.cdiv = 0
            ELSE ClockAtMost(rs.in.bus_hz, Divisor(rs.state.cdiv), rs.in.hz)

C6_Witness ==
  /\ ResolvedOk
  /\ 0 < rs.in.hz
  /\ rs.in.hz < rs.in.bus_hz
  /\ rs.state.cdiv = 0
  /\ rs.in.bus_hz \div CDIV_MAX < rs.in.hz

C8_ErrorsExact ==
  Resolved =>
    /\ rs.ret # OK <=> (\/ NeedsTooBigDivisor(rs.in.bus_hz, rs.in.hz)
                        \/ rs.in.bpw \notin {8, 9})
    /\ rs.ret \in {OK, EINVAL}
    /\ rs.ret # OK => rs.state = PriorState
    /\ (rs.ret = OK /\ rs.in.has_state) => rs.state # PriorState

C8_Witness ==
  /\ Resolved
  /\ rs.ret = EINVAL
  /\ rs.in.has_state
  /\ rs.in.bpw = 16
  /\ ~NeedsTooBigDivisor(rs.in.bus_hz, rs.in.hz)
  /\ rs.state = PriorState


----------------------------------------------------------------------------
(* Properties of the queue and the worker, checked under Spec.             *)

Accepted(i) == sub[i].pc = "returned" /\ sub[i].ret = OK
Rejected(i) == sub[i].pc = "returned" /\ sub[i].ret # OK

\* the entries of xlog that belong to Message i, in order
RECURSIVE XfersOf(_, _)
XfersOf(log, i) ==
  IF log = <<>> THEN <<>>
  ELSE IF Head(log).m = i THEN <<Head(log)>> \o XfersOf(Tail(log), i)
  ELSE XfersOf(Tail(log), i)

\* the Messages of xlog in the order the worker took them up
RECURSIVE Started(_)
Started(log) ==
  IF log = <<>> THEN <<>>
  ELSE IF Head(log).x = 1 THEN <<Head(log).m>> \o Started(Tail(log))
  ELSE Started(Tail(log))

IsPrefix(s, t) ==
  /\ Len(s) <= Len(t)
  /\ \A k \in 1..Len(s) : s[k] = t[k]

CallbackOrder == [k \in 1..Len(cb_log) |-> cb_log[k].m]

\* C1: Messages are taken from the queue and their callbacks invoked in the
\* order they were enqueued; the Transfers of a Message run in list order,
\* all Transfers of one Message before any of the next; a callback runs
\* while no other Message is being processed and is never repeated.
C1_FifoOrder ==
  /\ IsPrefix(CallbackOrder, enq_log)
  /\ IsPrefix(Started(xlog), enq_log)
  /\ \A k \in 1..Len(xlog) :
       \/ xlog[k].x = 1
       \/ k > 1 /\ xlog[k - 1].m = xlog[k].m /\ xlog[k - 1].x = xlog[k].x - 1
                /\ xlog[k - 1].ret = OK
  /\ \A j, k \in 1..Len(cb_log) : cb_log[j].m = cb_log[k].m => j = k
  /\ wpc = "callback" =>
       /\ cb_log # <<>>
       /\ cb_log[Len(cb_log)].m = cur
       /\ cur \notin {queue[k] : k \in 1..Len(queue)}
  /\ \A k \in 1..Len(queue) : queue[k] = enq_log[Len(enq_log) - Len(queue) + k]

C1_Witness ==
  /\ Len(cb_log) >= 2
  /\ Len(XfersOf(xlog, cb_log[1].m)) = 2
  /\ cb_log[1].status = OK
  /\ cb_log[2].status = OK

\* C2: a Message's callback is invoked at most once and only for an accepted
\* Message; when it is invoked the final status is already stored, and it is
\* 0 with every Transfer attempted and successful, or the error of the one
\* Transfer that failed, which was the last one attempted; whenever the
\* worker has finished and no work is queued, every accepted Message has had
\* its callback.
C2_CallbackOnce ==
  /\ \A j, k \in 1..Len(cb_log) : cb_log[j].m = cb_log[k].m => j = k
  /\ \A k \in 1..Len(cb_log) :
       LET i == cb_log[k].m
           xs == XfersOf(xlog, i)
           n == Len(xs)
       IN  /\ i \in {enq_log[j] : j \in 1..Len(enq_log)}
           /\ cb_log[k].status # EINPROGRESS
           /\ msg[i].status = cb_log[k].status
           /\ n >= 1
           /\ \A j \in 1..n : xs[j].x = j
           /\ \A j \in 1..(n - 1) : xs[j].ret = OK
           /\ xs[n].ret = cb_log[k].status
           /\ cb_log[k].status = OK => n = Len(msg[i].transfers)
  /\ \A i \in MsgIds :
       (Accepted(i) /\ i \notin {cb_log[k].m : k \in 1..Len(cb_log)})
         => msg[i].status = EINPROGRESS
  /\ (wpc = "idle" /\ ~work_pending) =>
       \A i \in MsgIds :
         Accepted(i) => i \in {cb_log[k].m : k \in 1..Len(cb_log)}

C2_Witness ==
  /\ Len(cb_log) = 2
  /\ cb_log[1].status = ETIMEDOUT
  /\ cb_log[2].status = ESHUTDOWN
  /\ wpc = "idle"
  /\ ~work_pending

\* C3 as stated, for the Messages that have Transfers: once stopping is
\* set, a submit call that returns returns -ESHUTDOWN, and no Message is
\* appended to the queue.
C3_AsStated ==
  [][stopping =>
       /\ Len(queue') <= Len(queue)
       /\ \A i \in MsgIds :
            (sub[i].pc # "returned" /\ sub'[i].pc = "returned"
               /\ msg'[i].transfers # <<>>)
              => sub'[i].ret = ESHUTDOWN]_vars

Malformed(m) ==
  \/ m.transfers = <<>>
  \/ \E k \in 1..Len(m.transfers) : MissingBuf(m.transfers[k])

\* C4: a submit call with a Message that has no Transfers, or a Transfer
\* with a length and neither buffer, returns an error from its checks
\* (-EINVAL; -ESHUTDOWN when a non-empty Message meets the stopping flag
\* first); the call leaves the queue and the pending work alone, and the
\* Message's status and actual_length stay as the caller passed them.
C4_RejectsMalformed ==
  /\ [](\A i \in MsgIds :
          (sub[i].pc # "idle" /\ Malformed(msg[i])) =>
            /\ Rejected(i)
            /\ sub[i].ret \in {EINVAL, ESHUTDOWN}
            /\ msg[i].transfers = <<>> => sub[i].ret = EINVAL
            /\ i \notin {enq_log[k] : k \in 1..Len(enq_log)}
            /\ i \notin {queue[k] : k \in 1..Len(queue)}
            /\ msg[i] \in PoolOf(env.pool))
  /\ [][\A i \in MsgIds :
          (sub[i].pc = "idle" /\ sub'[i].pc # "idle" /\ Malformed(msg'[i])) =>
            /\ sub'[i].pc = "returned"
            /\ queue' = queue
            /\ work_pending' = work_pending
            /\ enq_log' = enq_log]_vars

C4_Witness ==
  \E i, j \in MsgIds :
    /\ Rejected(i) /\ msg[i].transfers = <<>> /\ stopping
    /\ Rejected(j) /\ msg[j].transfers # <<>> /\ Malformed(msg[j])
    /\ sub[j].ret = EINVAL

\* C5 as stated: no accepted Message fails in the worker with a resolver
\* error.
C5_AsStated ==
  \A k \in 1..Len(xlog) : xlog[k].ret # EINVAL

\* C10 as stated: a wide-mode Transfer of odd length that the pump aborts is
\* reported as failed and the bytes it did not send are not counted.
C10_AsStated ==
  \A k \in 1..Len(xlog) :
    LET x == msg[xlog[k].m].transfers[xlog[k].x] IN
    (xlog[k].wide /\ x.len % 2 = 1) =>
      /\ xlog[k].ret # OK
      /\ xlog[k].added <= xlog[k].pushed

----------------------------------------------------------------------------
(* Properties of the pump, checked under SpecPump.                         *)

\* C9 as stated: a wide-mode Transfer of odd length, whatever the length,
\* has no byte written to the transmit FIFO.
C9_AsStated ==
  /\ \A k \in 1..Len(xlog) :
       LET x == msg[xlog[k].m].transfers[xlog[k].x] IN
       (xlog[k].wide /\ x.len % 2 = 1) => xlog[k].pushed = 0
  /\ (wpc = "wait" /\ SPI_CS_LEN \in stp.cs /\ CurXfer.len % 2 = 1)
       => bs.pushed = 0

----------------------------------------------------------------------------
(* Failure inside a Message, checked under Spec.                           *)

\* the bytes the successful Transfers of a log moved into the transmit FIFO
RECURSIVE SumPushed(_)
SumPushed(xs) ==
  IF xs = <<>> THEN 0
  ELSE (IF Head(xs).ret = OK THEN Head(xs).pushed ELSE 0) + SumPushed(Tail(xs))

\* C11 as stated: when a Transfer of a Message fails, it is the last one
\* attempted, the status at the callback is its error, the failed Transfer
\* adds nothing, and the actual length at the callback is the number of
\* bytes the Transfers completed before it pushed into the transmit FIFO.
C11_AsStated ==
  \A k \in 1..Len(cb_log) :
    LET xs == XfersOf(xlog, cb_log[k].m)
        n == Len(xs)
    IN  cb_log[k].status # OK =>
          /\ n >= 1
          /\ \A j \in 1..(n - 1) : xs[j].ret = OK
          /\ xs[n].ret = cb_log[k].status
          /\ xs[n].added = 0
          /\ cb_log[k].actual_length = SumPushed(xs)

----------------------------------------------------------------------------
(* Recovery from a missing interrupt, checked under SpecLive.              *)

Enqueued == {enq_log[k] : k \in 1..Len(enq_log)}
CalledBack == {cb_log[k].m : k \in 1..Len(cb_log)}

\* C12: a wait that ends without a completion fails the Transfer with
\* -ETIMEDOUT and ends its Message with that status, no Transfer is ever
\* attempted twice, the worker always leaves the wait, and every Message
\* enqueued before teardown gets its callback, whatever timed out before it.
C12_TimeoutRecovers ==
  /\ [][(wpc = "wait" /\ wpc' # "wait" /\ done = 0) =>
          /\ wpc' = "complete"
          /\ status' = ETIMEDOUT
          /\ xlog'[Len(xlog')] =
               [m |-> cur, x |-> xi, ret |-> ETIMEDOUT, armed |-> TRUE,
                wide |-> SPI_CS_LEN \in stp.cs, pushed |-> bs.pushed,
                left |-> bs.len, added |-> 0]]_vars
  /\ [](\A j, k \in 1..Len(xlog) :
          (xlog[j].m = xlog[k].m /\ xlog[j].x = xlog[k].x) => j = k)
  /\ [](\A k \in 1..Len(cb_log) :
          LET xs == XfersOf(xlog, cb_log[k].m) IN
          xs[Len(xs)].ret = ETIMEDOUT => cb_log[k].status = ETIMEDOUT)
  /\ (wpc = "wait") ~> (wpc # "wait")
  /\ \A i \in MsgIds : (i \in Enqueued /\ ~stopping) ~> (i \in CalledBack)

C12_Witness ==
  /\ Len(cb_log) = 2
  /\ cb_log[1].status = ETIMEDOUT
  /\ cb_log[2].status = OK
  /\ ~stopping

----------------------------------------------------------------------------
(* The control register after a Transfer, checked under Spec.              *)

ActiveBits == {SPI_CS_TA, SPI_CS_INTD, SPI_CS_INTR}

\* C13 as stated: when the callback of a Message that failed with
\* -ETIMEDOUT is invoked, CS has TA, INTD and INTR clear.
C13_AsStated ==
  (wpc = "callback" /\ cb_log[Len(cb_log)].status = ETIMEDOUT) =>
    hw.cs \cap ActiveBits = {}

----------------------------------------------------------------------------
(* Byte-exact pumping of one Transfer, checked under SpecPump.             *)

\* the cursor belongs to the Transfer the worker is running
Loaded ==
  \/ wpc \in {"arm", "wait"}
  \/ wpc \in {"complete", "callback"} /\ xlog[Len(xlog)].armed

\* C14: a Transfer in byte mode that returns success has pushed exactly its
\* length into the transmit FIFO, has stored exactly its length through the
\* receive buffer when there is one and nothing otherwise, and has added
\* exactly its length to the actual length; while it runs and after it, the
\* bytes pushed and stored never exceed its length.
C14_ByteExact ==
  /\ (Loaded /\ SPI_CS_LEN \notin stp.cs) =>
       /\ bs.pushed + bs.len = CurXfer.len
       /\ bs.len >= 0
       /\ bs.stored <= bs.pushed
       /\ bs.stored <= CurXfer.len
       /\ ~CurXfer.rx => bs.stored = 0
  /\ (wpc \in {"complete", "callback"} /\ status = OK /\ SPI_CS_LEN \notin stp.cs) =>
       /\ bs.pushed = CurXfer.len
       /\ bs.len = 0
       /\ bs.stored = (IF CurXfer.rx THEN CurXfer.len ELSE 0)
       /\ msg[cur].actual_length = CurXfer.len
       /\ xlog[Len(xlog)].added = CurXfer.len

C14_Witness ==
  /\ wpc = "callback"
  /\ status = OK
  /\ SPI_CS_LEN \notin stp.cs
  /\ CurXfer.rx
  /\ CurXfer.len > FIFO_DEPTH + RXR_CHUNK
  /\ bs.stored = CurXfer.len
  /\ bs.pushed = CurXfer.len

----------------------------------------------------------------------------
(* Teardown while a Transfer is in flight, checked under Spec.             *)

\* C15 as stated: teardown leaves an in-flight Transfer alone: as long as
\* the worker waits for a completion that has not been raised, the engine
\* is still active with its done interrupt enabled, so that the Transfer can
\* end with its normal result.
C15_AsStated ==
  (wpc = "wait" /\ done = 0) => {SPI_CS_TA, SPI_CS_INTD} \subseteq hw.cs

----------------------------------------------------------------------------
(* The arithmetic of one handler invocation, checked under SpecPump.       *)

\* a step of bcm2708_spi_interrupt: the only step that changes the cursor,
\* raises a completion or takes entries out of the receive FIFO while the
\* worker and teardown stand still
IsPumpStep ==
  /\ wpc' = wpc
  /\ rpc' = rpc
  /\ sub' = sub
  /\ (bs' # bs \/ done' # done \/ hw'.rx < hw.rx)

WideNow == SPI_CS_LEN \in hw.cs

\* the step moved exactly min(n, remaining) bytes from the cursor into the
\* transmit FIFO
PushedExactly(n) ==
  LET k == Min(n, bs.len) IN
  /\ bs'.pushed = bs.pushed + k
  /\ bs'.len = bs.len - k
  /\ hw'.tx = hw.tx + (IF WideNow THEN k \div 2 ELSE k)

\* the wide-mode abort of lines 156-159: nothing pushed, nothing remains
PushAborted ==
  /\ bs'.pushed = bs.pushed
  /\ bs'.len = 0
  /\ hw'.tx = hw.tx

\* the step took exactly n entries out of the receive FIFO
ReadExactly(n) ==
  /\ hw'.rx = hw.rx - n
  /\ bs'.stored = bs.stored + (IF bs.rx THEN n ELSE 0)

RemainingInRange == Loaded => (0 <= bs.len /\ bs.len <= CurXfer.len)

\* C16 as stated: on done with bytes remaining the handler pushes exactly
\* min(16, remaining); otherwise, on ready, it reads exactly 12 and pushes
\* exactly min(12, remaining); the remaining length goes down by what was
\* pushed and stays between 0 and the armed length, in byte and wide mode.
C16_AsStated ==
  /\ [][IsPumpStep =>
          /\ (HwDone(hw) /\ bs.len # 0) =>
               PushedExactly(DONE_FILL) /\ ReadExactly(0)
          /\ ~HwDone(hw) =>
               HwRxr(hw) /\ ReadExactly(RXR_CHUNK) /\ PushedExactly(RXR_CHUNK)]_vars
  /\ []RemainingInRange

\* C16: as above, except that in wide mode a chunk min(n, remaining) of odd
\* size is not pushed: the remaining length is set to 0 with no byte moved.
C16_PumpArithmetic ==
  /\ [][IsPumpStep =>
          /\ (HwDone(hw) /\ bs.len # 0) =>
               /\ ReadExactly(0)
               /\ IF WideNow /\ Min(DONE_FILL, bs.len) % 2 = 1
                  THEN PushAborted ELSE PushedExactly(DONE_FILL)
          /\ ~HwDone(hw) =>
               /\ HwRxr(hw)
               /\ ReadExactly(RXR_CHUNK)
               /\ IF WideNow /\ Min(RXR_CHUNK, bs.len) % 2 = 1
                  THEN PushAborted ELSE PushedExactly(RXR_CHUNK)]_vars
  /\ []RemainingInRange

\* the ready branch has read 12 entries and pushed a full 12 bytes, in wide
\* mode, with bytes still remaining
C16_Witness ==
  /\ wpc = "wait"
  /\ WideNow
  /\ CurXfer.rx
  /\ bs.stored = RXR_CHUNK
  /\ bs.pushed = 7 * DONE_FILL + RXR_CHUNK
  /\ bs.len > 0

----------------------------------------------------------------------------
(* Chip select between the Transfers of a Message, checked under Spec.     *)

\* the step on which bcm2708_process_transfer returns success
IsXferDoneStep == wpc = "wait" /\ done > 0 /\ wpc' # "wait"

\* lines 341-342: the Transfer releases chip select
Releases == xi = Len(msg[cur].transfers) \/ CurXfer.cs_change

\* the worker stands between two Transfers of one Message and the first of
\* them kept chip select
KeepsSelect ==
  /\ wpc \in {"xfer", "reinit", "cursor", "arm"}
  /\ xi > 1
  /\ ~msg[cur].transfers[xi - 1].cs_change

----------------------------------------------------------------------------
(* The cursor between the worker and the handler, checked under Spec.      *)

\* the interrupt line is raised: bcm2708_spi_interrupt can run now
CanInterrupt == hw_on /\ IrqLine(hw)

\* C18 as stated: where the worker accesses the cursor without the lock, to
\* load it (lines 322-324) and to read the remaining length after the wait
\* (line 347), no interrupt can be delivered.
C18_AsStated ==
  /\ wpc = "cursor" => ~CanInterrupt
  /\ (wpc = "wait" /\ done > 0) => ~CanInterrupt

----------------------------------------------------------------------------
(* Completions and the Transfer they belong to, checked under Spec.        *)

\* C19 as stated: a Transfer that returns success has nothing left to send
\* and is counted with its whole length.
C19_AsStated ==
  \A k \in 1..Len(xlog) :
    xlog[k].ret = OK =>
      /\ xlog[k].left = 0
      /\ xlog[k].added = msg[xlog[k].m].transfers[xlog[k].x].len

----------------------------------------------------------------------------
(* The cached state of the peer at arming time, checked under SpecSetup.   *)

NoOverrides(x) == x.bits_per_word = 0 /\ x.speed_hz = 0

\* C20 as stated: when the worker arms a Transfer without overrides, the
\* state it takes from spi->controller_state is present; no Message reaches
\* the register writes of the arm step with that state absent.
C20_AsStated ==
  /\ (wpc = "arm" /\ NoOverrides(CurXfer)) =>
       /\ stp = spi.controller_state
       /\ stp # NoState
  /\ wpc # "oops"

=============================================================================
